---------------------------- MODULE Spec2Model ----------------------------
(***************************************************************************)
(* Model of gen-similar-text.cpp: a first-order Markov text generator.     *)
(*                                                                         *)
(* A character is a one-element string; a std::string is a sequence of     *)
(* characters; a lexeme is a std::string.  A pointer to a key of m_model   *)
(* is modelled by the key itself: keys of a std::unordered_map are never   *)
(* moved or erased here, so the pointee of such a pointer is fixed.        *)
(***************************************************************************)
EXTENDS Integers, Sequences, FiniteSets, TLC

\* ------------------------------------------------------------------ bounds

\* Longest input text, in characters.
MaxTextLen == 5

\* Longest input text of the runs whose generation loop is followed without
\* end.
MaxLiveTextLen == 6

\* Iterations of the generation loop the model follows (the loop itself is
\* unbounded: while (true)).
MaxSteps == 4

\* Calls of add() followed in the specification of Distr taken alone.
MaxAdds == 3

\* The source sets kSoftLexLimit = 500 (line 24).  The model scales it down
\* so that runs pass the limit within MaxSteps iterations.
kSoftLexLimit == 1

\* --------------------------------------------------------------- characters

\* "x01" stands for a byte that is neither whitespace, nor [[:w:]], nor
\* [[:punct:]] (a control character, or a byte >= 0x80 in the "C" locale).
WordChars == {"a"}
PunctChars == {".", "-"}
JoinChars == {"-", "'"}
SpaceChars == {" "}
OtherChars == {"x01"}
Alphabet == WordChars \cup PunctChars \cup SpaceChars \cup OtherChars

\* The null pointer: a value of the pointers' kind that is no key.
Null == <<"nullptr">>
End == 0

kStartingLex == <<".">>
kTerminatorLex == kStartingLex

Space == <<" ">>
Endl == <<"\n">>

\* ------------------------------------------------------------------- state

VARIABLES
    text,                     \* contents of the input file
    rest,                     \* unread part of the input stream `in`
    chunk,                    \* std::string chunk
    it,                       \* position of `it` in the chunk's matches, or End
    prevIt,                   \* position of `prevIt`, or End
    prevChunkLastLexStrPtr,
    lastLexStrPtr,
    m_model,                  \* Distr::m_model: key -> vector of key pointers
    m_uniform_sitribution_states, \* int -> uniform_int_distribution params
    uniqueLexCount,           \* local of main, line 157
    lex,                      \* local of main, line 178
    i,                        \* local of main, line 179
    out,                      \* what OUT(...) has written, in order
    pc,                       \* position of main
    addLog,                   \* history: the add() calls <<curLex, nextLex, k>>,
                              \* k the place in the text's lexeme stream of
                              \* the match passed (0: not a match of the text)
    draws                     \* history: the nextLex() calls <<curLex, size, index>>

vars == <<text, rest, chunk, it, prevIt, prevChunkLastLexStrPtr, lastLexStrPtr,
          m_model, m_uniform_sitribution_states, uniqueLexCount, lex, i, out,
          pc, addLog, draws>>

\* ------------------------------------------------------------------- lexer

\* operator>>(istream&, string&): skip leading whitespace ...
RECURSIVE SkipWs(_)
SkipWs(s) ==
    IF s # <<>> /\ Head(s) \in SpaceChars THEN SkipWs(Tail(s)) ELSE s

\* ... then take characters up to the next whitespace.
RECURSIVE ChunkLen(_)
ChunkLen(s) ==
    IF s = <<>> \/ Head(s) \in SpaceChars THEN 0 ELSE 1 + ChunkLen(Tail(s))

\* Length of the run of [[:w:]] characters of s starting at position p.
RECURSIVE WordRun(_, _)
WordRun(s, p) ==
    IF p <= Len(s) /\ s[p] \in WordChars THEN 1 + WordRun(s, p + 1) ELSE 0

\* Length of the match of lexRx anchored at p (0: none).  The alternatives
\* are tried in the order written; + is greedy.
MatchLen(s, p) ==
    LET w == WordRun(s, p)
        w2 == IF w > 0 /\ p + w <= Len(s) /\ s[p + w] \in JoinChars
              THEN WordRun(s, p + w + 1) ELSE 0
    IN  IF w > 0 /\ w2 > 0 THEN w + 1 + w2
        ELSE IF w > 0 THEN w
        ELSE IF p + 2 <= Len(s) /\ s[p] = "." /\ s[p + 1] = "." /\ s[p + 2] = "."
             THEN 3
        ELSE IF s[p] \in PunctChars THEN 1
        ELSE 0

\* The matches std::sregex_token_iterator {begin, end, lexRx} walks through.
RECURSIVE TokensFrom(_, _)
TokensFrom(s, p) ==
    IF p > Len(s) THEN <<>>
    ELSE LET n == MatchLen(s, p)
         IN  IF n = 0 THEN TokensFrom(s, p + 1)
             ELSE <<SubSeq(s, p, p + n - 1)>> \o TokensFrom(s, p + n)

Tokens(s) == TokensFrom(s, 1)

\* ++it
IncIt(s, p) == IF p >= Len(Tokens(s)) THEN End ELSE p + 1

\* is_punctation: regex_search(lex, "^(([.]{3})|[[:punct:]])$")
is_punctation(l) ==
    \/ l = <<".", ".", ".">>
    \/ Len(l) = 1 /\ l[1] \in PunctChars

\* ------------------------------------------------------------------- Distr

\* m_model.try_emplace(k): insert k with an empty vector unless present.
TryEmplace(m, k) == IF k \in DOMAIN m THEN m ELSE m @@ (k :> <<>>)

\* A faulty add: the successor gets no entry of its own.
MutAddModelNoSuccessorKey(m, curLex, nextLex) ==
    [TryEmplace(m, curLex) EXCEPT ![curLex] = Append(@, nextLex)]

\* A faulty add: the successor is put at the front of the list.
MutAddModelPrepend(m, curLex, nextLex) ==
    LET m1 == TryEmplace(m, nextLex)
        m2 == TryEmplace(m1, curLex)
    IN  [m2 EXCEPT ![curLex] = <<nextLex>> \o @]

\* Distr::add: the model after the call.
AddModel(m, curLex, nextLex) ==
    LET m1 == TryEmplace(m, nextLex)
        m2 == TryEmplace(m1, curLex)
    IN  [m2 EXCEPT ![curLex] = Append(@, nextLex)]

\* A faulty add: the pointer to the predecessor's key is returned.
MutAddResultPredecessor(m, curLex, nextLex) == curLex

\* Distr::add: the pointer returned.
AddResult(m, curLex, nextLex) == nextLex

\* Distr::uniqueLexCount
UniqueLexCount(m) == Cardinality(DOMAIN m)

\* Distr::nextLex, m_model[curLex]: operator[] inserts a missing key.
ModelAfterLookup(m, curLex) == TryEmplace(m, curLex)

\* Distr::nextLex, m_uniform_sitribution_states.try_emplace(size-1, 0, size-1)
DistrAfter(u, size) ==
    IF (size - 1) \in DOMAIN u THEN u
    ELSE u @@ ((size - 1) :> [a |-> 0, b |-> size - 1])

\* A faulty draw: always the first successor.
MutDrawRangeFirstOnly(u, size) == {0}

\* The indices the distribution object found under key size-1 can return.
DrawRange(u, size) ==
    LET d == DistrAfter(u, size)[size - 1] IN d.a .. d.b

\* Distr::nextLex: the indices a call can draw (none on the ERR path).
NextLexIndices(m, u, curLex) ==
    LET size == Len(ModelAfterLookup(m, curLex)[curLex])
    IN  IF size = 0 THEN {} ELSE DrawRange(u, size)

\* A faulty draw: the lexeme parsed last is returned whenever the list holds
\* it, whatever the index drawn.
MutNextLexResultLastParsed(m, curLex, index) ==
    IF \E n \in 1..Len(m[curLex]) : m[curLex][n] = lastLexStrPtr
    THEN lastLexStrPtr
    ELSE m[curLex][index + 1]

\* Distr::nextLex: *distrData[index]
NextLexResult(m, curLex, index) == m[curLex][index + 1]

\* -------------------------------------------------------------------- main

Texts == UNION {[1..n -> Alphabet] : n \in 0..MaxTextLen}

\* What an invalid read of *it may yield when it does not trap.
IndeterminateLex == {<<>>, <<"x01">>, kStartingLex}

Init ==
    /\ text \in Texts
    /\ rest = text
    /\ chunk = <<>>
    /\ it = End
    /\ prevIt = End
    /\ prevChunkLastLexStrPtr = Null
    /\ lastLexStrPtr = Null
    /\ m_model = <<>>
    /\ m_uniform_sitribution_states = <<>>
    /\ uniqueLexCount = 0
    /\ lex = <<>>
    /\ i = 0
    /\ out = <<>>
    /\ pc = "read"
    /\ addLog = <<>>
    /\ draws = <<>>

\* Lines 120-122 and 133: while (in >> chunk), prevIt = {}, it = first match.
ReadChunk ==
    /\ pc = "read"
    /\ LET s == SkipWs(rest)
           n == ChunkLen(s)
       IN  IF n = 0
           THEN /\ pc' = "built"
                /\ rest' = s
                /\ UNCHANGED <<chunk, it, prevIt>>
           ELSE /\ chunk' = SubSeq(s, 1, n)
                /\ rest' = SubSeq(s, n + 1, Len(s))
                /\ prevIt' = End
                /\ it' = IF Tokens(chunk') = <<>> THEN End ELSE 1
                /\ pc' = "lex"
    /\ UNCHANGED <<text, prevChunkLastLexStrPtr, lastLexStrPtr, m_model,
                   m_uniform_sitribution_states, uniqueLexCount, lex, i, out,
                   addLog, draws>>

\* The lexeme stream of a text: the matches of its chunks, in order.
RECURSIVE AllLexemes(_)
AllLexemes(s) ==
    LET t == SkipWs(s)
        n == ChunkLen(t)
    IN  IF n = 0 THEN <<>>
        ELSE Tokens(SubSeq(t, 1, n)) \o AllLexemes(SubSeq(t, n + 1, Len(t)))

\* The part of the input read so far.
Consumed == SubSeq(text, 1, Len(text) - Len(rest))

\* In the parse loop: the position, in the text's lexeme stream, of the match
\* `it` stands on.
LexIndex == Len(AllLexemes(Consumed)) - Len(Tokens(chunk)) + it

\* A faulty predecessor: nothing is carried over from the chunk before.
MutPredecessorNoCarry ==
    IF prevIt = End THEN kStartingLex ELSE Tokens(chunk)[prevIt]

\* Lines 138-141: the first argument of add.
Predecessor ==
    IF prevChunkLastLexStrPtr # Null THEN prevChunkLastLexStrPtr
    ELSE IF prevIt = End THEN kStartingLex
    ELSE Tokens(chunk)[prevIt]

\* Lines 137-151 with *it = nextLex (the k-th lexeme of the text, if any) and
\* ++it = nextIt.
LexBody(nextLex, nextIt, k) ==
    /\ m_model' = AddModel(m_model, Predecessor, nextLex)
    /\ lastLexStrPtr' = AddResult(m_model, Predecessor, nextLex)
    /\ addLog' = Append(addLog, <<Predecessor, nextLex, k>>)
    /\ prevIt' = it
    /\ it' = nextIt
    /\ IF nextIt = End
       THEN /\ prevChunkLastLexStrPtr' = lastLexStrPtr'
            /\ pc' = "read"
       ELSE /\ prevChunkLastLexStrPtr' = Null
            /\ pc' = "lex"
    /\ UNCHANGED <<text, rest, chunk, m_uniform_sitribution_states,
                   uniqueLexCount, lex, i, out, draws>>

\* Lines 133-152: one iteration of the for loop, `it` on a match.
LexStep ==
    /\ pc = "lex"
    /\ it # End
    /\ LexBody(Tokens(chunk)[it], IncIt(chunk, it), LexIndex)

\* Lines 133-137 when the chunk has no match: the for loop has no entry test,
\* so *it reads through the end-of-sequence iterator.  The behaviour is
\* undefined: the read traps, or yields an indeterminate string that is added
\* to the model, after which the loop is left.
LexDerefEnd ==
    /\ pc = "lex"
    /\ it = End
    /\ \/ /\ pc' = "crashed"
          /\ UNCHANGED <<text, rest, chunk, it, prevIt, prevChunkLastLexStrPtr,
                         lastLexStrPtr, m_model, m_uniform_sitribution_states,
                         uniqueLexCount, lex, i, out, addLog, draws>>
       \/ \E g \in IndeterminateLex : LexBody(g, End, 0)

\* Lines 157-163.
CheckEmpty ==
    /\ pc = "built"
    /\ uniqueLexCount' = UniqueLexCount(m_model)
    /\ pc' = IF uniqueLexCount' = 0 THEN "empty" ELSE "gen"
    /\ UNCHANGED <<text, rest, chunk, it, prevIt, prevChunkLastLexStrPtr,
                   lastLexStrPtr, m_model, m_uniform_sitribution_states, lex, i,
                   out, addLog, draws>>

\* A faulty ERR path: the failed draw is reported and the caller goes on with
\* the lexeme it asked for.
MutNextLexAbortGoesOn(curLex) ==
    /\ Len(ModelAfterLookup(m_model, curLex)[curLex]) = 0
    /\ m_model' = ModelAfterLookup(m_model, curLex)
    /\ draws' = Append(draws, <<curLex, 0, -1>>)
    /\ pc' = "loop"
    /\ lex' = curLex
    /\ UNCHANGED <<m_uniform_sitribution_states, i>>

\* Distr::nextLex(curLex), lines 70-85: the ERR path.
NextLexAbort(curLex) ==
    /\ Len(ModelAfterLookup(m_model, curLex)[curLex]) = 0
    /\ m_model' = ModelAfterLookup(m_model, curLex)
    /\ draws' = Append(draws, <<curLex, 0, -1>>)
    /\ pc' = "aborted"
    /\ UNCHANGED <<m_uniform_sitribution_states, lex, i>>

\* Distr::nextLex(curLex), lines 70-85: the call returns *distrData[index].
NextLexReturn(curLex, index) ==
    LET m == ModelAfterLookup(m_model, curLex)
        size == Len(m[curLex])
    IN  /\ m_model' = m
        /\ m_uniform_sitribution_states' =
               DistrAfter(m_uniform_sitribution_states, size)
        /\ draws' = Append(draws, <<curLex, size, index>>)
        /\ lex' = NextLexResult(m, curLex, index)

\* A faulty start: the counter counts the lexeme drawn before the loop.
MutGenStartCountsFirst ==
    /\ pc = "gen"
    /\ \/ /\ NextLexAbort(kStartingLex)
          /\ UNCHANGED out
       \/ /\ \E index \in NextLexIndices(m_model, m_uniform_sitribution_states,
                                         kStartingLex) :
                NextLexReturn(kStartingLex, index)
          /\ i' = 1
          /\ pc' = "loop"
          /\ UNCHANGED out
    /\ UNCHANGED <<text, rest, chunk, it, prevIt, prevChunkLastLexStrPtr,
                   lastLexStrPtr, uniqueLexCount, addLog>>

\* Lines 178-179.
GenStart ==
    /\ pc = "gen"
    /\ \/ /\ NextLexAbort(kStartingLex)
          /\ UNCHANGED out
       \/ /\ \E index \in NextLexIndices(m_model, m_uniform_sitribution_states,
                                         kStartingLex) :
                NextLexReturn(kStartingLex, index)
          /\ i' = 0
          /\ pc' = "loop"
          /\ UNCHANGED out
    /\ UNCHANGED <<text, rest, chunk, it, prevIt, prevChunkLastLexStrPtr,
                   lastLexStrPtr, uniqueLexCount, addLog>>

\* A faulty separator: decided by the lexeme just written.
MutSeparatorByEmitted(emitted, drawn) ==
    IF ~is_punctation(emitted) THEN <<Space>> ELSE <<>>

\* A faulty separator: a space after every lexeme.
MutSeparatorAlways(emitted, drawn) == <<Space>>

\* Lines 184-186: the separator written after OUT(lex), given the lexeme drawn.
Separator(emitted, drawn) == IF ~is_punctation(drawn) THEN <<Space>> ELSE <<>>

\* A faulty test: past the limit any drawn lexeme ends the run.
MutTerminatesOnLimitOnly(count, drawn) == count > kSoftLexLimit

\* A faulty test: the limit itself counts as exceeded.
MutTerminatesAtLimit(count, drawn) ==
    count >= kSoftLexLimit /\ drawn = kTerminatorLex

\* A faulty test: either condition ends the run.
MutTerminatesEither(count, drawn) ==
    count > kSoftLexLimit \/ drawn = kTerminatorLex

\* Line 188: the termination test, on the incremented counter.
Terminates(count, drawn) == count > kSoftLexLimit /\ drawn = kTerminatorLex

\* Lines 180-194: one iteration of while (true).
GenStep ==
    /\ pc = "loop"
    /\ i < MaxSteps
    /\ \/ /\ NextLexAbort(lex)
          /\ out' = Append(out, lex)
       \/ /\ \E index \in NextLexIndices(m_model, m_uniform_sitribution_states, lex) :
                NextLexReturn(lex, index)
          /\ IF Terminates(i + 1, lex')
             THEN /\ out' = Append(out, lex) \o Separator(lex, lex') \o <<lex', Endl>>
                  /\ i' = i + 2
                  /\ pc' = "done"
             ELSE /\ out' = Append(out, lex) \o Separator(lex, lex')
                  /\ i' = i + 1
                  /\ pc' = "loop"
    /\ UNCHANGED <<text, rest, chunk, it, prevIt, prevChunkLastLexStrPtr,
                   lastLexStrPtr, uniqueLexCount, addLog>>

Next ==
    \/ ReadChunk
    \/ LexStep
    \/ LexDerefEnd
    \/ CheckEmpty
    \/ GenStart
    \/ GenStep

Spec == Init /\ [][Next]_vars

\* ------------------------------------------------- Distr::add taken alone

\* The lexemes the add() calls below are made with.
AddLexemes == {kStartingLex, <<"a">>, <<"a", "a">>}

InitAdd ==
    /\ text = <<>>
    /\ rest = <<>>
    /\ chunk = <<>>
    /\ it = End
    /\ prevIt = End
    /\ prevChunkLastLexStrPtr = Null
    /\ lastLexStrPtr = Null
    /\ m_model = <<>>
    /\ m_uniform_sitribution_states = <<>>
    /\ uniqueLexCount = 0
    /\ lex = <<>>
    /\ i = 0
    /\ out = <<>>
    /\ pc = "api"
    /\ addLog = <<>>
    /\ draws = <<>>

\* A caller's lastLexStrPtr = distr.add(curLex, nextLex), any arguments.
AddCall ==
    /\ pc = "api"
    /\ Len(addLog) < MaxAdds
    /\ \E curLex \in AddLexemes, nextLex \in AddLexemes :
          /\ m_model' = AddModel(m_model, curLex, nextLex)
          /\ lastLexStrPtr' = AddResult(m_model, curLex, nextLex)
          /\ addLog' = Append(addLog, <<curLex, nextLex, 0>>)
    /\ UNCHANGED <<text, rest, chunk, it, prevIt, prevChunkLastLexStrPtr,
                   m_uniform_sitribution_states, uniqueLexCount, lex, i, out,
                   pc, draws>>

NextAdd == AddCall

SpecAdd == InitAdd /\ [][NextAdd]_vars

\* ------------------------------------------------- what the claims speak of

\* The chunks of a text.
RECURSIVE AllChunks(_)
AllChunks(s) ==
    LET t == SkipWs(s)
        n == ChunkLen(t)
    IN  IF n = 0 THEN <<>>
        ELSE <<SubSeq(t, 1, n)>> \o AllChunks(SubSeq(t, n + 1, Len(t)))

\* Every chunk of the text yields at least one lexeme.
EveryChunkMatches(s) ==
    \A c \in 1..Len(AllChunks(s)) : Tokens(AllChunks(s)[c]) # <<>>

\* The predecessor the k-th lexeme of the text is to be linked to.
ExpectedPredecessor(s, k) == IF k = 1 THEN kStartingLex ELSE AllLexemes(s)[k - 1]

\* The transitions of a text: its lexeme stream with the sentinel prepended,
\* taken pairwise.
Transitions(s) ==
    [k \in 1..Len(AllLexemes(s)) |-> <<ExpectedPredecessor(s, k), AllLexemes(s)[k], k>>]

\* The successors of x in a sequence of pairs, in order.
RECURSIVE SuccessorsIn(_, _)
SuccessorsIn(pairs, x) ==
    IF pairs = <<>> THEN <<>>
    ELSE (IF Head(pairs)[1] = x THEN <<Head(pairs)[2]>> ELSE <<>>)
         \o SuccessorsIn(Tail(pairs), x)

Range(f) == {f[x] : x \in DOMAIN f}

\* The successor list the model holds for x (none: empty).
ListOf(m, x) == IF x \in DOMAIN m THEN m[x] ELSE <<>>

\* The lexemes written to the output, without separators and line ends.
IsLexemeToken(t) == t # Space /\ t # Endl
Emitted == SelectSeq(out, IsLexemeToken)

\* The lexeme the d-th nextLex call returned.
Drawn(d) == ListOf(m_model, draws[d][1])[draws[d][3] + 1]

\* ------------------------------------- generation followed without end

\* The texts of these runs: one chunk at most, of punctuation, so that the
\* lexemes are few (".", "-", "...") while the walks are of any shape.
LiveTexts == UNION {[1..n -> PunctChars] : n \in 0..MaxLiveTextLen}

\* The lexemes a model built from them can hold.
LiveLexemes == UNION {Range(AllLexemes(t)) : t \in LiveTexts}

InitLive ==
    /\ text \in LiveTexts
    /\ rest = text
    /\ chunk = <<>>
    /\ it = End
    /\ prevIt = End
    /\ prevChunkLastLexStrPtr = Null
    /\ lastLexStrPtr = Null
    /\ m_model = <<>>
    /\ m_uniform_sitribution_states = <<>>
    /\ uniqueLexCount = 0
    /\ lex = <<>>
    /\ i = 0
    /\ out = <<>>
    /\ pc = "read"
    /\ addLog = <<>>
    /\ draws = <<>>

\* Lines 180-194: one iteration of while (true), any number of times.  Of the
\* counter only its comparison with kSoftLexLimit is followed (once beyond
\* the limit it stays beyond), and neither the output written nor the log of
\* draws is kept.
GenStepLive ==
    /\ pc = "loop"
    /\ LET m == ModelAfterLookup(m_model, lex)
       IN  /\ m_model' = m
           /\ IF Len(m[lex]) = 0
              THEN /\ pc' = "aborted"
                   /\ UNCHANGED <<m_uniform_sitribution_states, lex, i>>
              ELSE /\ m_uniform_sitribution_states' =
                          DistrAfter(m_uniform_sitribution_states, Len(m[lex]))
                   /\ \E index \in NextLexIndices(m_model,
                                                  m_uniform_sitribution_states, lex) :
                          lex' = NextLexResult(m, lex, index)
                   /\ i' = IF i > kSoftLexLimit THEN i ELSE i + 1
                   /\ pc' = IF Terminates(i + 1, lex') THEN "done" ELSE "loop"
    /\ UNCHANGED <<text, rest, chunk, it, prevIt, prevChunkLastLexStrPtr,
                   lastLexStrPtr, uniqueLexCount, out, addLog, draws>>

\* The steps of a run on such a text (every chunk has a match).
NextLive ==
    \/ ReadChunk
    \/ LexStep
    \/ CheckEmpty
    \/ GenStart
    \/ GenStepLive

\* Generation keeps running, and the random choice is fair: a lexeme that
\* can be drawn again and again is drawn again and again.
FairChoice ==
    /\ WF_vars(GenStart \/ GenStepLive)
    /\ \A y \in LiveLexemes : SF_vars(GenStepLive /\ lex' = y)

SpecLive == InitLive /\ [][NextLive]_vars /\ FairChoice

\* ------------------------------------------------------------------ claims

\* C1 (as claimed, for any input): the build pass gets every lexeme of the
\* text passed to add() with the lexeme before it in the text's lexeme stream
\* as predecessor (the last lexeme of the chunk before for the first lexeme
\* of a chunk, the preceding lexeme of the same chunk otherwise), and the very
\* first lexeme with the sentinel.
ClaimC1 ==
    pc \in {"built", "crashed"} =>
        \A k \in 1..Len(AllLexemes(text)) :
            \E j \in 1..Len(addLog) :
                addLog[j] = <<ExpectedPredecessor(text, k), AllLexemes(text)[k], k>>

\* The linking law of C1 on the texts all of whose chunks yield a lexeme:
\* every step of the parse loop passes the next lexeme with that predecessor.
LinkingOnMatchedChunks ==
    [][(EveryChunkMatches(text) /\ pc = "lex") =>
          /\ it # End
          /\ addLog' = Append(addLog, Transitions(text)[LexIndex])]_vars

\* C2 (as claimed, for any text): the build pass ends, and after it the
\* successor list of every lexeme x holds, in order of observation and with
\* duplicates, exactly the lexemes that follow x in the text's lexeme stream
\* with the sentinel prepended.
ClaimC2 ==
    /\ pc # "crashed"
    /\ pc = "built" =>
           \A x \in DOMAIN m_model \cup Range(AllLexemes(text)) \cup {kStartingLex} :
               ListOf(m_model, x) = SuccessorsIn(Transitions(text), x)

\* The law of C2 on the texts all of whose chunks yield a lexeme.
TransitionsOnMatchedChunks ==
    (pc = "built" /\ EveryChunkMatches(text)) =>
        /\ addLog = Transitions(text)
        /\ \A x \in DOMAIN m_model \cup Range(AllLexemes(text)) \cup {kStartingLex} :
               ListOf(m_model, x) = SuccessorsIn(Transitions(text), x)

\* C3: add(predecessor, successor) leaves both as keys, creating only the
\* absent ones, keeps an existing successor entry as it is and creates an
\* absent one empty, appends the successor once at the end of the
\* predecessor's list (an absent predecessor's list starting empty), and
\* returns the pointer to the successor's key; also when both are equal.
TheoremC3 ==
    [][Len(addLog') = Len(addLog) + 1 =>
          LET cur == addLog'[Len(addLog')][1]
              nxt == addLog'[Len(addLog')][2]
          IN  /\ DOMAIN m_model' = DOMAIN m_model \cup {cur, nxt}
              /\ nxt # cur => m_model'[nxt] = ListOf(m_model, nxt)
              /\ m_model'[cur] = Append(ListOf(m_model, cur), nxt)
              /\ lastLexStrPtr' = nxt]_vars

\* C3's case: add() has been called with equal arguments, and with an
\* argument that was a key already.
WitnessC3 ==
    /\ pc = "api"
    /\ \E k \in 1..Len(addLog) : addLog[k][1] = addLog[k][2]
    /\ \E k \in 2..Len(addLog) : addLog[k][2] \in {addLog[1][1], addLog[1][2]}

\* C4: after any sequence of add() calls every lexeme passed as predecessor or
\* as successor is a key of the model, and every entry of every successor list
\* is a key.
TheoremC4 ==
    /\ \A k \in 1..Len(addLog) :
           addLog[k][1] \in DOMAIN m_model /\ addLog[k][2] \in DOMAIN m_model
    /\ \A x \in DOMAIN m_model : Range(m_model[x]) \subseteq DOMAIN m_model

\* C4's case: a lexeme that only ever was a successor is a key with an empty
\* list.
WitnessC4 ==
    /\ pc = "api"
    /\ \E x \in DOMAIN m_model :
           /\ m_model[x] = <<>>
           /\ \E y \in DOMAIN m_model : x \in Range(m_model[y])

\* C5 (as claimed, on the texts that yield a lexeme): the build pass ends,
\* and after it uniqueLexCount() is the number of distinct lexemes of the
\* text, plus one if the sentinel is not among them.
ClaimC5 ==
    AllLexemes(text) # <<>> =>
        /\ pc # "crashed"
        /\ pc = "built" =>
               UniqueLexCount(m_model) =
                   Cardinality(Range(AllLexemes(text)) \cup {kStartingLex})

\* The count of C5 on the texts all of whose chunks yield a lexeme; a text
\* without any lexeme leaves the model empty.
CountOnMatchedChunks ==
    (pc = "built" /\ EveryChunkMatches(text)) =>
        UniqueLexCount(m_model) =
            IF AllLexemes(text) = <<>> THEN 0
            ELSE Cardinality(Range(AllLexemes(text)) \cup {kStartingLex})

\* A nextLex call of the generation loop returns in this step.
LoopDraw == pc = "loop" /\ Len(draws') = Len(draws) + 1 /\ pc' # "aborted"

IsWordLexeme(t) == IsLexemeToken(t) /\ ~is_punctation(t)

\* The output with the lexeme the loop holds and writes next.
Rendered == IF pc = "loop" THEN Append(out, lex) ELSE out

\* C6: generation stops normally only in a loop step whose incremented
\* counter exceeds the soft limit and whose drawn lexeme is the sentinel, and
\* every such step stops it, writing that sentinel as the last lexeme; any
\* other drawn lexeme, a sentinel within the limit included, is kept, the loop
\* goes on, and every loop step first writes the lexeme it holds.
TheoremC6 ==
    [][/\ (pc' = "done" /\ pc # "done") =>
              /\ LoopDraw
              /\ i + 1 > kSoftLexLimit
              /\ lex' = kTerminatorLex
              /\ out'[Len(out') - 1] = kTerminatorLex
              /\ out'[Len(out')] = Endl
       /\ LoopDraw =>
              /\ lex' = ListOf(m_model, lex)[draws'[Len(draws')][3] + 1]
              /\ SubSeq(out', 1, Len(out) + 1) = Append(out, lex)
              /\ (i + 1 > kSoftLexLimit /\ lex' = kTerminatorLex) => pc' = "done"
              /\ ~(i + 1 > kSoftLexLimit /\ lex' = kTerminatorLex) =>
                     pc' = "loop" /\ i' = i + 1]_vars

\* C6's case: the run stopped normally after a sentinel had been drawn in the
\* loop with the counter within the limit.
WitnessC6 ==
    /\ pc = "done"
    /\ EveryChunkMatches(text)
    /\ \E d \in 2..(Len(draws) - 1) :
           Drawn(d) = kTerminatorLex /\ d - 1 <= kSoftLexLimit

\* C7: a run that stopped normally has written at least kSoftLexLimit + 1
\* lexemes, the last of them the sentinel, and no sentinel between the first
\* lexeme drawn with the counter beyond the limit and that last one.
TheoremC7 ==
    pc = "done" =>
        /\ Len(Emitted) >= kSoftLexLimit + 1
        /\ Emitted[Len(Emitted)] = kTerminatorLex
        /\ \A j \in (kSoftLexLimit + 2)..(Len(Emitted) - 1) :
               Emitted[j] # kTerminatorLex

\* C7's case: a model with one successor per lexeme, whose walk came back to
\* the sentinel only steps after the limit was passed.
WitnessC7 ==
    /\ pc = "done"
    /\ EveryChunkMatches(text)
    /\ \A x \in DOMAIN m_model : Len(m_model[x]) = 1
    /\ Len(Emitted) > kSoftLexLimit + 2

\* C8: in the output a word lexeme is followed either directly by a
\* punctuation lexeme or by exactly one space and then a word lexeme.
TheoremC8 ==
    \A j \in 1..(Len(Rendered) - 1) :
        IsWordLexeme(Rendered[j]) =>
            \/ is_punctation(Rendered[j + 1])
            \/ /\ Rendered[j + 1] = Space
               /\ j + 2 <= Len(Rendered)
               /\ IsWordLexeme(Rendered[j + 2])

\* C8's case: a finished output with a word directly before a punctuation
\* lexeme and with two words one space apart (as "a a." of the walk a, a, ".").
WitnessC8 ==
    /\ pc = "done"
    /\ EveryChunkMatches(text)
    /\ \E j \in 1..(Len(out) - 1) :
           IsWordLexeme(out[j]) /\ is_punctation(out[j + 1])
    /\ \E j \in 1..(Len(out) - 2) :
           IsWordLexeme(out[j]) /\ out[j + 1] = Space /\ IsWordLexeme(out[j + 2])

\* C9 (as claimed): a loop step writes the lexeme it holds and then the
\* separator that lexeme decides (none after punctuation, a space otherwise),
\* nothing else but the final sentinel and line end of a run that stops, and
\* increments the counter.
ClaimC9 ==
    [][LoopDraw =>
          LET written == Append(out, lex)
                             \o (IF is_punctation(lex) THEN <<>> ELSE <<Space>>)
          IN  /\ out' \in {written, written \o <<lex', Endl>>}
              /\ i' > i]_vars

\* C9 (amended): a loop step writes the lexeme it holds, draws the next one,
\* and then writes the separator the drawn lexeme decides (none before
\* punctuation, a space otherwise), nothing else but the final sentinel and
\* line end of a run that stops, and increments the counter; a draw that
\* fails leaves the lexeme written without separator.
TheoremC9 ==
    [][/\ LoopDraw =>
              LET written == Append(out, lex)
                                 \o (IF is_punctation(lex') THEN <<>> ELSE <<Space>>)
              IN  /\ out' \in {written, written \o <<lex', Endl>>}
                  /\ i' > i
       /\ (pc = "loop" /\ pc' = "aborted") => out' = Append(out, lex)]_vars

\* C9's case: a punctuation lexeme was written with a space after it, a word
\* having been drawn next.
WitnessC9 ==
    /\ EveryChunkMatches(text)
    /\ \E j \in 1..(Len(out) - 1) : is_punctation(out[j]) /\ out[j + 1] = Space

\* C10 (as claimed): a text that yields no lexeme leaves the model empty, no
\* nextLex call is made, nothing is written, and main returns at line 162.
ClaimC10 ==
    AllLexemes(text) = <<>> =>
        /\ pc \in {"read", "lex", "built", "empty"}
        /\ draws = <<>>
        /\ out = <<>>
        /\ pc \in {"built", "empty"} => UniqueLexCount(m_model) = 0

\* The law of C10 on the texts without any chunk.
EmptyInputOnNoChunks ==
    AllChunks(text) = <<>> =>
        /\ pc \in {"read", "built", "empty"}
        /\ draws = <<>>
        /\ out = <<>>
        /\ m_model = <<>>

\* C11 (as claimed): a chunk that yields no lexeme is legal and contributes
\* nothing: its parse makes no add() call, raises no error, and leaves the
\* model and the linking state as they were, the next chunk being read next.
ClaimC11 ==
    [][(pc = "lex" /\ Tokens(chunk) = <<>>) =>
          /\ pc' = "read"
          /\ addLog' = addLog
          /\ m_model' = m_model
          /\ prevChunkLastLexStrPtr' = prevChunkLastLexStrPtr]_vars

\* A nextLex call is made in this step, for this lexeme.
DrawCall == pc \in {"gen", "loop"} /\ Len(draws') = Len(draws) + 1
DrawnFrom == IF pc = "gen" THEN kStartingLex ELSE lex

\* C12: a draw from a lexeme whose successor list is empty or missing aborts
\* the process at that draw and only such a draw does: nothing is written
\* after what the loop had written before the draw (the lexeme it held), no
\* lexeme is returned, the counter stays, and from the aborted process no
\* step follows: no retry, no further draw, no normal completion.
TheoremC12 ==
    [][/\ DrawCall =>
              (ListOf(m_model, DrawnFrom) = <<>> <=> pc' = "aborted")
       /\ (pc' = "aborted" /\ pc # "aborted") =>
              /\ DrawCall
              /\ draws'[Len(draws')] = <<DrawnFrom, 0, -1>>
              /\ out' = IF pc = "loop" THEN Append(out, lex) ELSE out
              /\ lex' = lex
              /\ i' = i
       /\ pc = "aborted" => vars' = vars]_vars

\* C12's case: the walk of a text whose chunks all yield a lexeme was
\* aborted in the loop, at a lexeme that is a key with no successor.
WitnessC12 ==
    /\ pc = "aborted"
    /\ EveryChunkMatches(text)
    /\ Len(draws) > 1
    /\ draws[Len(draws)][1] \in DOMAIN m_model
    /\ out # <<>>
    /\ out[Len(out)] = draws[Len(draws)][1]

\* The model the build pass leaves for a text.
BuiltModel(s) ==
    [x \in Range(AllLexemes(s)) \cup (IF AllLexemes(s) = <<>> THEN {} ELSE {kStartingLex})
        |-> SuccessorsIn(Transitions(s), x)]

\* C13: from the first nextLex call until generation stops or aborts the
\* model is only read: no step adds or removes a key or changes a successor
\* list, every lexeme passed to nextLex (whose operator[] would insert it)
\* being a key already.
TheoremC13 ==
    [][(pc \in {"gen", "loop", "done", "aborted"}) =>
          /\ m_model' = m_model
          /\ DrawCall => DrawnFrom \in DOMAIN m_model]_vars

\* C13's case: a walk of several draws has stopped normally and the model is
\* still the one built from the text.
WitnessC13 ==
    /\ pc = "done"
    /\ EveryChunkMatches(text)
    /\ Len(draws) >= 3
    /\ m_model = BuiltModel(text)

\* The number of entries of the list S equal to x.
Occurrences(S, x) == Cardinality({n \in 1..Len(S) : S[n] = x})

\* C14: a nextLex call for a lexeme with a non-empty successor list S can
\* draw every index of 0..|S|-1 and no other, and returns S[index], so that a
\* lexeme occurring k times in S is the result of exactly k of the |S|
\* choices; the distribution object cached under key n draws from 0..n.
TheoremC14 ==
    /\ \A n \in DOMAIN m_uniform_sitribution_states :
           /\ m_uniform_sitribution_states[n].a = 0
           /\ m_uniform_sitribution_states[n].b = n
    /\ \A d \in 1..Len(draws) :
           LET S == ListOf(m_model, draws[d][1])
           IN  S # <<>> =>
                   /\ draws[d][2] = Len(S)
                   /\ draws[d][3] \in 0..(Len(S) - 1)
                   /\ (draws[d][2] - 1) \in DOMAIN m_uniform_sitribution_states
    /\ (pc = "loop" /\ i = Len(draws) - 1) => lex = Drawn(Len(draws))
    /\ pc \in {"gen", "loop"} =>
           LET S == ListOf(m_model, DrawnFrom)
               choices == NextLexIndices(m_model, m_uniform_sitribution_states,
                                         DrawnFrom)
           IN  S # <<>> =>
                   /\ choices = 0..(Len(S) - 1)
                   /\ \A x \in Range(S) :
                          Cardinality({c \in choices :
                                          NextLexResult(m_model, DrawnFrom, c) = x})
                              = Occurrences(S, x)

\* C14's case: two draws from the same list of two entries, served by the
\* same cached distribution object, gave its first and its last index, and
\* some list holds a lexeme twice.
WitnessC14 ==
    /\ EveryChunkMatches(text)
    /\ \E d, e \in 1..Len(draws) :
           /\ draws[d][1] = draws[e][1]
           /\ draws[d][2] = 2
           /\ draws[d][3] = 0
           /\ draws[e][3] = 1
    /\ \E y \in DOMAIN m_model : \E x \in Range(m_model[y]) :
           Occurrences(m_model[y], x) = 2

\* C15: no add() call removes a key or removes or reorders the entries of a
\* list: a call changes the model only by appending one entry to the list of
\* its predecessor argument and by creating empty entries for its arguments
\* that were absent; every other key and list, and the cached distributions,
\* stay as they were.
TheoremC15 ==
    [][Len(addLog') = Len(addLog) + 1 =>
          LET cur == addLog'[Len(addLog')][1]
              nxt == addLog'[Len(addLog')][2]
          IN  /\ DOMAIN m_model \subseteq DOMAIN m_model'
              /\ DOMAIN m_model' \ DOMAIN m_model \subseteq {cur, nxt}
              /\ \A x \in DOMAIN m_model :
                     SubSeq(m_model'[x], 1, Len(m_model[x])) = m_model[x]
              /\ \A x \in DOMAIN m_model' \ {cur} :
                     m_model'[x] = ListOf(m_model, x)
              /\ Len(m_model'[cur]) = Len(ListOf(m_model, cur)) + 1
              /\ m_uniform_sitribution_states' = m_uniform_sitribution_states]_vars

\* C15's case: after several calls a list holds two different entries in the
\* order of the calls, beside another key whose list is not empty.
WitnessC15 ==
    /\ pc = "api"
    /\ \E j, k \in 1..Len(addLog) :
           /\ j < k
           /\ addLog[j][1] = addLog[k][1]
           /\ addLog[j][2] # addLog[k][2]
           /\ m_model[addLog[j][1]] = <<addLog[j][2], addLog[k][2]>>
           /\ \E y \in DOMAIN m_model \ {addLog[j][1]} : m_model[y] # <<>>

\* The indices drawn so far, in order (-1: the draw that aborted).
Indices == [d \in 1..Len(draws) |-> draws[d][3]]

\* Lines 180-194 as a function of the model and the indices still to be
\* drawn: the outcome of the loop entered holding cur, with counter count and
\* output written.
RECURSIVE ReplayLoop(_, _, _, _, _)
ReplayLoop(m, idx, cur, count, written) ==
    IF idx = <<>> THEN [out |-> written, pc |-> "loop", lex |-> cur, i |-> count]
    ELSE IF ListOf(m, cur) = <<>>
    THEN [out |-> Append(written, cur), pc |-> "aborted", lex |-> cur, i |-> count]
    ELSE LET nxt == ListOf(m, cur)[Head(idx) + 1]
             w == Append(written, cur)
                      \o (IF is_punctation(nxt) THEN <<>> ELSE <<Space>>)
         IN  IF count + 1 > kSoftLexLimit /\ nxt = kTerminatorLex
             THEN [out |-> w \o <<nxt, Endl>>, pc |-> "done", lex |-> nxt,
                   i |-> count + 2]
             ELSE ReplayLoop(m, Tail(idx), nxt, count + 1, w)

\* Lines 178-194 as a function of the model and the sequence of indices drawn.
Replay(m, idx) ==
    IF idx = <<>> THEN [out |-> <<>>, pc |-> "gen", lex |-> <<>>, i |-> 0]
    ELSE IF ListOf(m, kStartingLex) = <<>>
    THEN [out |-> <<>>, pc |-> "aborted", lex |-> <<>>, i |-> 0]
    ELSE ReplayLoop(m, Tail(idx), ListOf(m, kStartingLex)[Head(idx) + 1], 0, <<>>)

\* C16: what a generation run has written, separators included, whether and
\* where it stopped or aborted, the lexeme it holds and its counter are a
\* function of the model and of the sequence of indices drawn: two runs on
\* the same model drawing the same indices produce the same output.
TheoremC16 ==
    pc \in {"gen", "loop", "done", "aborted"} =>
        LET r == Replay(m_model, Indices)
        IN  /\ out = r.out
            /\ pc = r.pc
            /\ pc \in {"loop", "done"} => lex = r.lex /\ i = r.i

\* C16's case: a run that drew both a first and a second index and wrote a
\* space has stopped normally.
WitnessC16 ==
    /\ pc = "done"
    /\ EveryChunkMatches(text)
    /\ \E d, e \in 1..Len(draws) : draws[d][3] = 0 /\ draws[e][3] = 1
    /\ \E j \in 1..Len(out) : out[j] = Space

\* The last lexeme of a text that has one.
LastLexeme(s) == AllLexemes(s)[Len(AllLexemes(s))]

\* x occurs in the text's lexeme stream, sentinel prepended, followed by
\* another lexeme.
IsFollowed(s, x) == \E k \in 1..Len(AllLexemes(s)) : ExpectedPredecessor(s, k) = x

\* C17: after the build pass over a text all of whose chunks yield a lexeme,
\* every key has a non-empty successor list, except the text's last lexeme
\* when it occurs nowhere followed by another lexeme; the sentinel's list is
\* not empty, and the fatal lookup error is raised for the text's last lexeme
\* only.
TheoremC17 ==
    (pc \in {"built", "gen", "loop", "done", "aborted"} /\ EveryChunkMatches(text)) =>
        /\ \A x \in DOMAIN m_model :
               m_model[x] = <<>> <=>
                   (x = LastLexeme(text) /\ ~IsFollowed(text, x))
        /\ DOMAIN m_model # {} =>
               /\ kStartingLex \in DOMAIN m_model
               /\ m_model[kStartingLex] # <<>>
        /\ pc = "aborted" =>
               /\ draws[Len(draws)][1] = LastLexeme(text)
               /\ Len(draws) > 1

\* C17's case: built from a text of several chunks, the model holds the last
\* lexeme with an empty list, while the lexeme that ends an earlier chunk
\* has the next chunk's first lexeme as successor.
WitnessC17 ==
    /\ pc = "built"
    /\ EveryChunkMatches(text)
    /\ Len(AllChunks(text)) >= 2
    /\ m_model[LastLexeme(text)] = <<>>
    /\ \E c \in 1..(Len(AllChunks(text)) - 1) :
           LET t == Tokens(AllChunks(text)[c])
           IN  t[Len(t)] # kStartingLex /\ m_model[t[Len(t)]] # <<>>

\* The lexemes a walk of the model can come to from x, in one draw or more.
RECURSIVE Closure(_, _)
Closure(m, set) ==
    LET more == set \cup UNION {Range(ListOf(m, y)) : y \in set}
    IN  IF more = set THEN set ELSE Closure(m, more)
ReachableFrom(m, x) == Closure(m, Range(ListOf(m, x)))

\* No lexeme reachable from the sentinel has an empty list, and the sentinel
\* is reachable from every one of them.
AlwaysBackToSentinel(m) ==
    \A y \in ReachableFrom(m, kStartingLex) :
        /\ ListOf(m, y) # <<>>
        /\ kStartingLex \in ReachableFrom(m, y)

\* The loop holds a lexeme from which no walk draws the sentinel, with the
\* counter such that every coming test finds it beyond the limit.
SentinelOutOfReach ==
    /\ pc = "loop"
    /\ i + 1 > kSoftLexLimit
    /\ kStartingLex \notin ReachableFrom(m_model, lex)

\* C18: under fair random choice a generation run on a model in which no
\* lexeme reachable from the sentinel has an empty list and the sentinel is
\* reachable from each of them eventually stops normally; and a run never
\* stops normally once the counter is beyond the limit and the sentinel can no
\* more be drawn.
TheoremC18 ==
    /\ (pc = "gen" /\ AlwaysBackToSentinel(m_model)) ~> (pc = "done")
    /\ [](SentinelOutOfReach => [](pc # "done"))

\* C18's case: a run has stopped normally on a model in which two lexemes
\* other than the sentinel follow each other, so that a walk could stay away
\* from the sentinel for any number of draws.
WitnessC18 ==
    /\ pc = "done"
    /\ EveryChunkMatches(text)
    /\ AlwaysBackToSentinel(m_model)
    /\ \E x, y \in DOMAIN m_model \ {kStartingLex} :
           x # y /\ y \in Range(m_model[x]) /\ x \in Range(m_model[y])

\* C19: at the head of every iteration of the generation loop i is the number
\* of lexemes written so far, and after a normal stop i, as reported, is the
\* number of all lexemes written, the first lexeme drawn from the sentinel and
\* the final sentinel included.
TheoremC19 ==
    /\ pc = "loop" => i = Len(Emitted)
    /\ pc = "done" =>
           /\ i = Len(Emitted)
           /\ Emitted[1] = Drawn(1)
           /\ Emitted[Len(Emitted)] = kTerminatorLex
           /\ Len(Emitted) = Len(draws)

\* C19's case: a run has stopped normally after more iterations than the
\* limit asks for, its output holding spaces beside the lexemes.
WitnessC19 ==
    /\ pc = "done"
    /\ EveryChunkMatches(text)
    /\ i > kSoftLexLimit + 2
    /\ Len(out) > i + 1

\* C20: the first lexeme drawn from the sentinel is written whatever it is,
\* the termination test being made first on the lexeme drawn after it, so
\* that a run that stops normally has written at least kSoftLexLimit + 2
\* lexemes.
TheoremC20 ==
    /\ (pc \in {"loop", "done", "aborted"} /\ Len(draws) >= 2) =>
           Emitted[1] = Drawn(1)
    /\ pc = "done" =>
           /\ Len(draws) >= 2
           /\ Len(Emitted) >= kSoftLexLimit + 2

\* C20's case: the first lexeme drawn was the sentinel itself, was written,
\* and the run stopped with the fewest lexemes there can be.
WitnessC20 ==
    /\ pc = "done"
    /\ EveryChunkMatches(text)
    /\ Drawn(1) = kTerminatorLex
    /\ Len(Emitted) = kSoftLexLimit + 2

=============================================================================
